---------------------------- MODULE Spec2Model ----------------------------
(***************************************************************************)
(* A model of address_book.py: the Field value types (Name, Phone,         *)
(* Birthday), Record, AddressBook, the command handlers wrapped by         *)
(* input_error, parse_input, save_data/load_data and the loop of main.     *)
(*                                                                         *)
(* A Python str is a sequence of one-character strings, so that the        *)
(* regular expression of Phone.validate, str.split and strptime are        *)
(* computed character by character.  A message on the console is a TLA+    *)
(* string.  A call that may raise returns [exc, msg, val]: exc = "" on a   *)
(* normal return, else the exception's class; val is the value returned    *)
(* or, for a method that mutates its object, the object as the call left   *)
(* it.  None is the empty tuple.                                           *)
(***************************************************************************)
EXTENDS Integers, Sequences, FiniteSets, TLC

VARIABLES
    book,        \* main's book / the AddressBook under test: its data, in insertion order
    today,       \* the date datetime.now().date() returns, <<year, month, day>>
    pc,          \* where main is: "loop", "farewell", "done" or "crashed"
    user_input,  \* main's user_input: the line read last
    display,     \* the message printed last
    file,        \* addressbook.pkl: <<>> when absent, else <<the pickled book>>
    saves,       \* how many times save_data has written the file
    call,        \* the library call made last (the specifications of direct use)
    ret          \* what that call returned or raised

vars == <<book, today, pc, user_input, display, file, saves, call, ret>>

-----------------------------------------------------------------------------
(* Bounds of the model *)

MaxPhones == 2
MaxTicks == 1
MaxSpan == 9
MaxSuffix == 2

-----------------------------------------------------------------------------
(* Python values *)

None == <<>>

Ret(v) == [exc |-> "", msg |-> "", val |-> v]

Raise(e, m, v) == [exc |-> e, msg |-> m, val |-> v]

Digits == <<"0", "1", "2", "3", "4", "5", "6", "7", "8", "9">>

IsDigit(c) == \E i \in 1..Len(Digits) : Digits[i] = c

DigitVal(c) == (CHOOSE i \in 1..Len(Digits) : Digits[i] = c) - 1

Whitespace == {" ", "\t", "\n"}

RECURSIVE Str(_)
Str(s) == IF s = <<>> THEN "" ELSE Head(s) \o Str(Tail(s))

RECURSIVE NatStr(_)
NatStr(n) == IF n < 10 THEN Digits[n + 1] ELSE NatStr(n \div 10) \o Digits[(n % 10) + 1]

RECURSIVE StrJoin(_, _)
StrJoin(sep, parts) ==
    IF parts = <<>> THEN ""
    ELSE IF Len(parts) = 1 THEN parts[1]
    ELSE parts[1] \o sep \o StrJoin(sep, Tail(parts))

-----------------------------------------------------------------------------
(* class Name, class Phone *)

Name(value) ==
    IF value = <<>> THEN Raise("ValueError", "Name is required.", None)
    ELSE Ret(value)

PhoneDigits == 10

\* re.match(r'^\d{10}$', value): ten digits from the start, and then the end
\* of the string or, as Python's $ also matches there, a newline that ends it.
Phone_validate(value) ==
    /\ Len(value) >= PhoneDigits
    /\ \A i \in 1..PhoneDigits : IsDigit(value[i])
    /\ \/ Len(value) = PhoneDigits
       \/ Len(value) = PhoneDigits + 1 /\ value[PhoneDigits + 1] = "\n"

Phone(value) ==
    IF ~Phone_validate(value)
    THEN Raise("ValueError", "Invalid phone number format. It must be 10 digits.", None)
    ELSE Ret(value)

-----------------------------------------------------------------------------
(* datetime.date *)

Year(d) == d[1]
Month(d) == d[2]
Day(d) == d[3]

IsLeap(y) == (y % 4 = 0) /\ ((y % 100 # 0) \/ (y % 400 = 0))

DaysInMonth(y, m) ==
    IF m = 2 THEN (IF IsLeap(y) THEN 29 ELSE 28)
    ELSE IF m \in {4, 6, 9, 11} THEN 30 ELSE 31

DaysBeforeYear(y) == (y - 1) * 365 + ((y - 1) \div 4) - ((y - 1) \div 100) + ((y - 1) \div 400)

RECURSIVE DaysBeforeMonth(_, _)
DaysBeforeMonth(y, m) == IF m = 1 THEN 0 ELSE DaysBeforeMonth(y, m - 1) + DaysInMonth(y, m - 1)

\* date.toordinal()
Ordinal(d) == DaysBeforeYear(Year(d)) + DaysBeforeMonth(Year(d), Month(d)) + Day(d)

ValidDate(y, m, d) == y \in 1..9999 /\ m \in 1..12 /\ d \in 1..DaysInMonth(y, m)

\* date.replace(year=y)
ReplaceYear(d, y) ==
    IF ValidDate(y, Month(d), Day(d)) THEN Ret(<<y, Month(d), Day(d)>>)
    ELSE Raise("ValueError", "day is out of range for month", None)

NextDay(d) ==
    IF Day(d) < DaysInMonth(Year(d), Month(d)) THEN <<Year(d), Month(d), Day(d) + 1>>
    ELSE IF Month(d) < 12 THEN <<Year(d), Month(d) + 1, 1>>
    ELSE <<Year(d) + 1, 1, 1>>

RECURSIVE PlusDays(_, _)
PlusDays(d, n) == IF n = 0 THEN d ELSE PlusDays(NextDay(d), n - 1)

Pad2(n) == IF n < 10 THEN "0" \o NatStr(n) ELSE NatStr(n)

\* date.strftime('%d.%m.%Y'), for the years of four digits
Strftime(d) == Pad2(Day(d)) \o "." \o Pad2(Month(d)) \o "." \o NatStr(Year(d))

-----------------------------------------------------------------------------
(* str.split, and datetime.strptime(value, "%d.%m.%Y") *)

RECURSIVE SplitWs(_, _, _)
SplitWs(s, cur, acc) ==
    IF s = <<>> THEN (IF cur = <<>> THEN acc ELSE Append(acc, cur))
    ELSE IF Head(s) \in Whitespace
         THEN SplitWs(Tail(s), <<>>, IF cur = <<>> THEN acc ELSE Append(acc, cur))
         ELSE SplitWs(Tail(s), Append(cur, Head(s)), acc)

\* user_input.split(): the runs of non-whitespace characters
split(s) == SplitWs(s, <<>>, <<>>)

RECURSIVE FieldsOf(_, _, _)
FieldsOf(s, cur, acc) ==
    IF s = <<>> THEN Append(acc, cur)
    ELSE IF Head(s) = "." THEN FieldsOf(Tail(s), <<>>, Append(acc, cur))
    ELSE FieldsOf(Tail(s), Append(cur, Head(s)), acc)

NonZeroDigit(c) == IsDigit(c) /\ c # "0"

\* %d: 3[0-1] | [1-2]\d | 0[1-9] | [1-9] | a space and [1-9]
DayField(f) ==
    \/ Len(f) = 1 /\ NonZeroDigit(f[1])
    \/ /\ Len(f) = 2
       /\ \/ f[1] = "3" /\ f[2] \in {"0", "1"}
          \/ f[1] \in {"1", "2"} /\ IsDigit(f[2])
          \/ f[1] \in {"0", " "} /\ NonZeroDigit(f[2])

\* %m: 1[0-2] | 0[1-9] | [1-9]
MonthField(f) ==
    \/ Len(f) = 1 /\ NonZeroDigit(f[1])
    \/ /\ Len(f) = 2
       /\ \/ f[1] = "1" /\ f[2] \in {"0", "1", "2"}
          \/ f[1] = "0" /\ NonZeroDigit(f[2])

\* %Y: \d\d\d\d
YearField(f) == Len(f) = 4 /\ \A i \in 1..4 : IsDigit(f[i])

RECURSIVE IntOf(_)
IntOf(f) ==
    IF f = <<>> THEN 0
    ELSE IF f[Len(f)] = " " THEN 0
    ELSE IntOf(SubSeq(f, 1, Len(f) - 1)) * 10 + DigitVal(f[Len(f)])

\* The three fields between the dots must match %d, %m and %Y with nothing
\* left over, and must name a day of the calendar.
Strptime(value) ==
    LET f == FieldsOf(value, <<>>, <<>>) IN
    IF Len(f) = 3 /\ DayField(f[1]) /\ MonthField(f[2]) /\ YearField(f[3])
       /\ ValidDate(IntOf(f[3]), IntOf(f[2]), IntOf(f[1]))
    THEN Ret(<<IntOf(f[3]), IntOf(f[2]), IntOf(f[1])>>)
    ELSE Raise("ValueError", "strptime", None)

Birthday(value) ==
    LET d == Strptime(value) IN
    IF d.exc = "ValueError"
    THEN Raise("ValueError", "Invalid date format. Use DD.MM.YYYY", None)
    ELSE d

-----------------------------------------------------------------------------
(* class Record: [name, phones, birthday].  A method that mutates self      *)
(* returns self as it left it, also when it raises.  A reference to an      *)
(* element of a list or of the book is its position; 0 is None.            *)

Record(name) ==
    LET n == Name(name) IN
    IF n.exc # "" THEN n
    ELSE Ret([name |-> n.val, phones |-> <<>>, birthday |-> None])

\* A variant that puts the new phone at the head of the list
Record_add_phone_at_head(self, phone_number) ==
    LET phone == Phone(phone_number) IN
    IF phone.exc # "" THEN Raise(phone.exc, phone.msg, self)
    ELSE Ret([self EXCEPT !.phones = <<phone.val>> \o @])

Record_add_phone(self, phone_number) ==
    LET phone == Phone(phone_number) IN
    IF phone.exc # "" THEN Raise(phone.exc, phone.msg, self)
    ELSE Ret([self EXCEPT !.phones = Append(@, phone.val)])

Record_find_phone(self, phone_number) ==
    LET hits == {i \in 1..Len(self.phones) : self.phones[i] = phone_number} IN
    IF hits = {} THEN 0 ELSE CHOOSE i \in hits : \A j \in hits : i <= j

RemoveAt(s, i) == SubSeq(s, 1, i - 1) \o SubSeq(s, i + 1, Len(s))

Record_remove_phone(self, phone_number) ==
    LET phone_to_remove == Record_find_phone(self, phone_number) IN
    IF phone_to_remove # 0
    THEN Ret([self EXCEPT !.phones = RemoveAt(@, phone_to_remove)])
    ELSE Raise("ValueError", "Phone number not found.", self)

Record_edit_phone(self, old_phone_number, new_phone_number) ==
    LET phone_to_edit == Record_find_phone(self, old_phone_number) IN
    IF phone_to_edit # 0
    THEN LET removed == Record_remove_phone(self, old_phone_number) IN
         IF removed.exc # "" THEN removed
         ELSE Record_add_phone(removed.val, new_phone_number)
    ELSE Raise("ValueError", "Phone number not found.", self)

Record_add_birthday(self, birthday) ==
    LET b == Birthday(birthday) IN
    IF b.exc # "" THEN Raise(b.exc, b.msg, self)
    ELSE Ret([self EXCEPT !.birthday = b.val])

\* Returns <<days>>, or None when no birthday is set; now is datetime.now().date()
Record_days_to_birthday(self, now) ==
    IF self.birthday # None
    THEN LET this_year == ReplaceYear(self.birthday, Year(now)) IN
         IF this_year.exc # "" THEN this_year
         ELSE IF Ordinal(this_year.val) < Ordinal(now)
              THEN LET next_year == ReplaceYear(self.birthday, Year(now) + 1) IN
                   IF next_year.exc # "" THEN next_year
                   ELSE Ret(<<Ordinal(next_year.val) - Ordinal(now)>>)
              ELSE Ret(<<Ordinal(this_year.val) - Ordinal(now)>>)
    ELSE Ret(None)

RECURSIVE StrEach(_)
StrEach(texts) == IF texts = <<>> THEN <<>> ELSE <<Str(Head(texts))>> \o StrEach(Tail(texts))

Record_str(self) ==
    LET birthday_str == IF self.birthday # None
                        THEN ", birthday: " \o Strftime(self.birthday) ELSE "" IN
    "Contact name: " \o Str(self.name) \o ", phones: "
        \o StrJoin("; ", StrEach(self.phones)) \o birthday_str

-----------------------------------------------------------------------------
(* class AddressBook(UserDict): data is the sequence of [key, rec] in        *)
(* insertion order, as a Python dict keeps it.                              *)

KeyIndex(data, key) ==
    LET hits == {i \in 1..Len(data) : data[i].key = key} IN
    IF hits = {} THEN 0 ELSE CHOOSE i \in hits : TRUE

\* A variant keyed by the Name field instead of its value
AddressBook_add_record_by_field(data, record) ==
    Append(data, [key |-> <<"Name", record.name>>, rec |-> record])

\* self.data[record.name.value] = record
AddressBook_add_record(data, record) ==
    LET i == KeyIndex(data, record.name) IN
    IF i = 0 THEN Append(data, [key |-> record.name, rec |-> record])
    ELSE [data EXCEPT ![i].rec = record]

\* self.data.get(name, None): the position of the record, 0 for None
AddressBook_find(data, name) == KeyIndex(data, name)

AddressBook_delete(data, name) ==
    IF KeyIndex(data, name) # 0 THEN Ret(RemoveAt(data, KeyIndex(data, name)))
    ELSE Raise("KeyError", "'Contact not found.'", data)

RECURSIVE UpcomingFrom(_, _, _, _)
UpcomingFrom(data, i, now, upcoming_birthdays) ==
    IF i > Len(data) THEN Ret(upcoming_birthdays)
    ELSE LET record == data[i].rec
             days == Record_days_to_birthday(record, now) IN
         IF days.exc # "" THEN days
         ELSE IF days.val # None /\ 0 <= days.val[1] /\ days.val[1] <= 7
              THEN UpcomingFrom(data, i + 1, now,
                       Append(upcoming_birthdays,
                              [name |-> record.name, birthday |-> record.birthday]))
              ELSE UpcomingFrom(data, i + 1, now, upcoming_birthdays)

AddressBook_get_upcoming_birthdays(data, now) == UpcomingFrom(data, 1, now, <<>>)

RECURSIVE RecordStrs(_)
RecordStrs(data) ==
    IF data = <<>> THEN <<>> ELSE <<Record_str(Head(data).rec)>> \o RecordStrs(Tail(data))

AddressBook_str(data) ==
    IF data = <<>> THEN "Address book is empty."
    ELSE StrJoin("\n", RecordStrs(data))

-----------------------------------------------------------------------------
(* The command handlers.  A handler returns [exc, msg, val, book]: val is   *)
(* the string it returns and book the data as it left it.                   *)

Done(message, data) == [exc |-> "", msg |-> "", val |-> message, book |-> data]

Fail(e, m, data) == [exc |-> e, msg |-> m, val |-> "", book |-> data]

\* The wrapper of the decorator
input_error(r) ==
    IF r.exc \in {"IndexError", "ValueError", "KeyError"}
    THEN Done("Error: " \o r.msg, r.book)
    ELSE r

\* name, ..., *_ = args, with fewer than n values
UnpackError(n, args) ==
    "not enough values to unpack (expected at least " \o NatStr(n)
        \o ", got " \o NatStr(Len(args)) \o ")"

\* The record object a handler holds stays the one stored in the book: a
\* call on it is a change of the book at its position.
Store(data, i, record) == [data EXCEPT ![i].rec = record]

\* The position at which add_record has just stored a new object
Stored(data, record) ==
    CHOOSE i \in 1..Len(data) :
        /\ data[i].rec = record
        /\ \A j \in 1..Len(data) : data[j].rec = record => j <= i

\* A variant that validates the phone before it creates the record
add_contact_validating_first(args, data) ==
    input_error(
        IF Len(args) < 2 THEN Fail("ValueError", UnpackError(2, args), data)
        ELSE IF Phone(args[2]).exc # ""
        THEN Fail(Phone(args[2]).exc, Phone(args[2]).msg, data)
        ELSE LET found == AddressBook_find(data, args[1])
                 data1 == IF found = 0
                          THEN AddressBook_add_record(data, Record(args[1]).val)
                          ELSE data
                 record == AddressBook_find(data1, args[1]) IN
             Done(IF found = 0 THEN "Contact added." ELSE "Contact updated.",
                  Store(data1, record, Record_add_phone(data1[record].rec, args[2]).val)))

add_contact(args, data) ==
    input_error(
        IF Len(args) < 2 THEN Fail("ValueError", UnpackError(2, args), data)
        ELSE LET name == args[1]
                 phone == args[2]
                 found == AddressBook_find(data, name)
                 new == Record(name) IN
             IF found = 0 /\ new.exc # "" THEN Fail(new.exc, new.msg, data)
             ELSE LET data1 == IF found = 0 THEN AddressBook_add_record(data, new.val)
                               ELSE data
                      record == IF found = 0 THEN Stored(data1, new.val) ELSE found
                      message == IF found = 0 THEN "Contact added." ELSE "Contact updated."
                  IN IF phone # <<>>
                     THEN LET added == Record_add_phone(data1[record].rec, phone) IN
                          IF added.exc # ""
                          THEN Fail(added.exc, added.msg, Store(data1, record, added.val))
                          ELSE Done(message, Store(data1, record, added.val))
                     ELSE Done(message, data1))

\* A variant without the check that the contact was found: the call on None
\* raises an AttributeError, which input_error does not catch
change_phone_unchecked(args, data) ==
    input_error(
        IF Len(args) < 3 THEN Fail("ValueError", UnpackError(3, args), data)
        ELSE LET record == AddressBook_find(data, args[1]) IN
             IF record = 0
             THEN Fail("AttributeError", "'NoneType' object has no attribute 'edit_phone'",
                       data)
             ELSE LET edited == Record_edit_phone(data[record].rec, args[2], args[3]) IN
                  IF edited.exc # ""
                  THEN Fail(edited.exc, edited.msg, Store(data, record, edited.val))
                  ELSE Done("Phone number updated.", Store(data, record, edited.val)))

change_phone(args, data) ==
    input_error(
        IF Len(args) < 3 THEN Fail("ValueError", UnpackError(3, args), data)
        ELSE LET name == args[1]
                 record == AddressBook_find(data, name) IN
             IF record = 0 THEN Fail("ValueError", "Contact not found.", data)
             ELSE LET edited == Record_edit_phone(data[record].rec, args[2], args[3]) IN
                  IF edited.exc # ""
                  THEN Fail(edited.exc, edited.msg, Store(data, record, edited.val))
                  ELSE Done("Phone number updated.", Store(data, record, edited.val)))

show_phone(args, data) ==
    input_error(
        IF Len(args) < 1 THEN Fail("ValueError", UnpackError(1, args), data)
        ELSE LET record == AddressBook_find(data, args[1]) IN
             IF record = 0 THEN Fail("ValueError", "Contact not found.", data)
             ELSE Done(Str(data[record].rec.name) \o ": "
                           \o StrJoin(", ", StrEach(data[record].rec.phones)), data))

show_all_contacts(data) == input_error(Done(AddressBook_str(data), data))

add_birthday(args, data) ==
    input_error(
        IF Len(args) < 2 THEN Fail("ValueError", UnpackError(2, args), data)
        ELSE LET record == AddressBook_find(data, args[1]) IN
             IF record = 0 THEN Fail("ValueError", "Contact not found.", data)
             ELSE LET set == Record_add_birthday(data[record].rec, args[2]) IN
                  IF set.exc # ""
                  THEN Fail(set.exc, set.msg, Store(data, record, set.val))
                  ELSE Done("Birthday added.", Store(data, record, set.val)))

show_birthday(args, data) ==
    input_error(
        IF Len(args) < 1 THEN Fail("ValueError", UnpackError(1, args), data)
        ELSE LET record == AddressBook_find(data, args[1]) IN
             IF record = 0 \/ data[record].rec.birthday = None
             THEN Fail("ValueError", "Birthday not found.", data)
             ELSE Done(Str(data[record].rec.name) \o ": "
                           \o Strftime(data[record].rec.birthday), data))

RECURSIVE BirthdayLines(_)
BirthdayLines(upcoming) ==
    IF upcoming = <<>> THEN <<>>
    ELSE <<Str(Head(upcoming).name) \o ": " \o Strftime(Head(upcoming).birthday)>>
             \o BirthdayLines(Tail(upcoming))

birthdays(args, data, now) ==
    input_error(
        LET upcoming_birthdays == AddressBook_get_upcoming_birthdays(data, now) IN
        IF upcoming_birthdays.exc # ""
        THEN Fail(upcoming_birthdays.exc, upcoming_birthdays.msg, data)
        ELSE LET result == BirthdayLines(upcoming_birthdays.val) IN
             Done(IF result # <<>> THEN StrJoin("\n", result) ELSE "No upcoming birthdays.",
                  data))

\* parts[0], parts[1:] of user_input.split()
parse_input(line) ==
    LET parts == split(line) IN
    IF parts = <<>> THEN Raise("IndexError", "list index out of range", None)
    ELSE Ret([command |-> Str(parts[1]), args |-> Tail(parts)])

-----------------------------------------------------------------------------
(* Storage *)

\* A variant that pickles a new AddressBook
save_data_empty(data) == <<<<>>>>

\* pickle.dump(book, f): what the file holds afterwards
save_data(data) == <<data>>

\* pickle.load(f), or a new AddressBook when the file is not found
load_data(f) == IF f = <<>> THEN <<>> ELSE f[1]

-----------------------------------------------------------------------------
(* The inputs of the model *)

Alice == <<"A", "l", "i", "c", "e">>
Bob == <<"B", "o", "b">>
Phone1 == <<"1", "2", "3", "4", "5", "6", "7", "8", "9", "0">>
Phone2 == <<"0", "9", "8", "7", "6", "5", "4", "3", "2", "1">>
ShortPhone == <<"1", "2", "3", "4", "5">>
LeapDay == <<"2", "9", ".", "0", "2", ".", "2", "0", "0", "0">>
NoSuchDay == <<"3", "1", ".", "0", "4", ".", "2", "0", "0", "1">>
NewYearsDay == <<"0", "1", ".", "0", "1", ".", "1", "9", "9", "0">>
NewYearsEve == <<"3", "1", ".", "1", "2", ".", "1", "9", "8", "0">>
FirstOfMarch == <<"1", ".", "3", ".", "2", "0", "0", "1">>

cHello == <<"h", "e", "l", "l", "o">>
cAdd == <<"a", "d", "d">>
cChange == <<"c", "h", "a", "n", "g", "e">>
cPhone == <<"p", "h", "o", "n", "e">>
cAll == <<"a", "l", "l">>
cAddBirthday == <<"a", "d", "d", "-", "b", "i", "r", "t", "h", "d", "a", "y">>
cShowBirthday == <<"s", "h", "o", "w", "-", "b", "i", "r", "t", "h", "d", "a", "y">>
cBirthdays == <<"b", "i", "r", "t", "h", "d", "a", "y", "s">>
cClose == <<"c", "l", "o", "s", "e">>
cExit == <<"e", "x", "i", "t">>
cOther == <<"h", "e", "l", "p">>

RECURSIVE Line(_)
Line(words) ==
    IF words = <<>> THEN <<>>
    ELSE IF Len(words) = 1 THEN words[1]
    ELSE words[1] \o <<" ">> \o Line(Tail(words))

\* The lines typed at the prompt
Lines ==
    {Line(<<cAdd, Alice, p>>) : p \in {Phone1, Phone2, ShortPhone}}
    \cup {Line(<<cAdd, Bob, Phone1>>), Line(<<cAdd, Alice>>)}
    \cup {cAdd \o <<"\t">> \o Alice \o <<" ", " ">> \o Phone2 \o <<" ">> \o cOther}
    \cup {Line(<<cChange, Alice, Phone1, p>>) : p \in {Phone2, ShortPhone}}
    \cup {Line(<<cChange, Alice, Phone2, Phone1>>)}
    \cup {Line(<<cChange, Bob, Phone2, Phone1>>), Line(<<cChange, Alice, Phone2>>)}
    \cup {Line(<<cPhone, n>>) : n \in {Alice, Bob}}
    \cup {Line(<<cAddBirthday, Alice, d>>) : d \in {LeapDay, NewYearsDay, NoSuchDay}}
    \cup {Line(<<cShowBirthday, n>>) : n \in {Alice, Bob}}
    \cup {cAll, cBirthdays, cOther, cClose, cExit, <<>>, <<" ", "\t">>,
          <<" ">> \o cHello \o <<" ">>}

\* parse_input of each line, computed once
Parsed == [line \in Lines |-> parse_input(line)]

\* The day main starts: the eve of a leap year
StartDays == {<<2023, 12, 31>>}

NoCall == [op |-> "", self |-> 0, args |-> <<>>]

-----------------------------------------------------------------------------
(* main *)

Init ==
    /\ file = <<>>
    /\ book = load_data(file)
    /\ today \in StartDays
    /\ pc = "loop"
    /\ user_input = <<>>
    /\ display = "Welcome to the assistant bot!"
    /\ saves = 0
    /\ call = NoCall
    /\ ret = Ret(None)

WithinBound(data) == \A i \in 1..Len(data) : Len(data[i].rec.phones) <= MaxPhones

\* user_input = input(...); command, args = parse_input(user_input), and the
\* branch of main that the command selects
Reads(line, commands) ==
    /\ pc = "loop"
    /\ Parsed[line].exc = ""
    /\ Parsed[line].val.command \in commands
    /\ user_input' = line

\* interface.display(handler(args, book)); an exception the handler lets
\* through ends the process
Displays(r) ==
    LET result == r IN
    /\ WithinBound(result.book)
    /\ book' = result.book
    /\ IF result.exc = "" THEN display' = result.val /\ pc' = "loop"
       ELSE display' = result.exc \o ": " \o result.msg /\ pc' = "crashed"
    /\ UNCHANGED <<today, file, saves, call, ret>>

Args(line) == Parsed[line].val.args

Known == {"close", "exit", "hello", "add", "change", "phone", "all", "add-birthday",
          "show-birthday", "birthdays"}

\* parse_input raises on a line without a word: nothing in main catches it
Blank ==
    \E line \in Lines :
        /\ pc = "loop"
        /\ Parsed[line].exc # ""
        /\ user_input' = line
        /\ display' = Parsed[line].exc \o ": " \o Parsed[line].msg
        /\ pc' = "crashed"
        /\ UNCHANGED <<book, today, file, saves, call, ret>>

Exit ==
    \E line \in Lines :
        /\ Reads(line, {"close", "exit"})
        /\ file' = save_data(book)
        /\ saves' = saves + 1
        /\ display' = "Data saved successfully."
        /\ pc' = "farewell"
        /\ UNCHANGED <<book, today, call, ret>>

Farewell ==
    /\ pc = "farewell"
    /\ display' = "Good bye!"
    /\ pc' = "done"
    /\ UNCHANGED <<book, today, user_input, file, saves, call, ret>>

Hello ==
    \E line \in Lines :
        Reads(line, {"hello"}) /\ Displays(Done("How can I help you?", book))

Add == \E line \in Lines : Reads(line, {"add"}) /\ Displays(add_contact(Args(line), book))

Change ==
    \E line \in Lines : Reads(line, {"change"}) /\ Displays(change_phone(Args(line), book))

ShowPhone ==
    \E line \in Lines : Reads(line, {"phone"}) /\ Displays(show_phone(Args(line), book))

All == \E line \in Lines : Reads(line, {"all"}) /\ Displays(show_all_contacts(book))

AddBirthday ==
    \E line \in Lines :
        Reads(line, {"add-birthday"}) /\ Displays(add_birthday(Args(line), book))

ShowBirthday ==
    \E line \in Lines :
        Reads(line, {"show-birthday"}) /\ Displays(show_birthday(Args(line), book))

Birthdays ==
    \E line \in Lines :
        Reads(line, {"birthdays"}) /\ Displays(birthdays(Args(line), book, today))

Invalid ==
    \E line \in Lines :
        /\ pc = "loop"
        /\ Parsed[line].exc = ""
        /\ Parsed[line].val.command \notin Known
        /\ user_input' = line
        /\ Displays(Done("Invalid command.", book))

\* The clock passes midnight
Midnight(starts) ==
    /\ \E s \in starts : Ordinal(today) - Ordinal(s) \in 0..(MaxTicks - 1)
    /\ today' = NextDay(today)
    /\ UNCHANGED <<book, pc, user_input, display, file, saves, call, ret>>

Tick == pc \in {"loop", "farewell"} /\ Midnight(StartDays)

Next ==
    \/ Blank
    \/ Exit
    \/ Farewell
    \/ Hello
    \/ Add
    \/ Change
    \/ ShowPhone
    \/ All
    \/ AddBirthday
    \/ ShowBirthday
    \/ Birthdays
    \/ Invalid
    \/ Tick

Spec == Init /\ [][Next]_vars

-----------------------------------------------------------------------------
(* The classes used directly: a caller that holds an AddressBook and calls  *)
(* the methods of its records with any string.  call is the call made and   *)
(* ret what it returned or raised.                                          *)

Calls(op, i, args, r) ==
    /\ call' = [op |-> op, self |-> i, args |-> args]
    /\ ret' = r
    /\ UNCHANGED <<today, pc, user_input, display, file, saves>>

\* book.add_record(Record(name))
NewRecord(names) ==
    \E name \in names :
        LET r == Record(name) IN
        /\ Calls("Record", 0, <<name>>, r)
        /\ book' = IF r.exc = "" THEN AddressBook_add_record(book, r.val) ELSE book

\* A call of a method of the record at position i that mutates it
OnRecord(op, i, args, r) ==
    /\ Calls(op, i, args, r)
    /\ WithinBound(Store(book, i, r.val))
    /\ book' = Store(book, i, r.val)

RECURSIVE SeqsUpTo(_, _)
SeqsUpTo(chars, n) ==
    IF n = 0 THEN {<<>>}
    ELSE SeqsUpTo(chars, n - 1)
         \cup {Append(s, c) : s \in SeqsUpTo(chars, n - 1), c \in chars}

\* Strings around the ten digits: eight to ten digits, followed by up to
\* MaxSuffix characters among a digit, a letter, a newline and a space
PhoneStrings ==
    {SubSeq(Phone1, 1, k) \o suffix :
        k \in (PhoneDigits - 2)..PhoneDigits,
        suffix \in SeqsUpTo({"7", "x", "\n", " "}, MaxSuffix)}
    \cup {Phone2, ShortPhone, <<>>, <<"\n">> \o Phone1, <<"x">> \o SubSeq(Phone1, 1, 9)}

CallAddPhone ==
    \E i \in 1..Len(book), s \in PhoneStrings :
        OnRecord("add_phone", i, <<s>>, Record_add_phone(book[i].rec, s))

CallRemovePhone ==
    \E i \in 1..Len(book), s \in PhoneStrings :
        OnRecord("remove_phone", i, <<s>>, Record_remove_phone(book[i].rec, s))

CallEditPhone ==
    \E i \in 1..Len(book), old \in {Phone1, Phone2}, new \in PhoneStrings :
        OnRecord("edit_phone", i, <<old, new>>, Record_edit_phone(book[i].rec, old, new))

CallFindPhone ==
    \E i \in 1..Len(book), s \in {Phone1, Phone2} :
        /\ Calls("find_phone", i, <<s>>, Ret(Record_find_phone(book[i].rec, s)))
        /\ UNCHANGED book

NextRecord ==
    \/ NewRecord({Alice, <<>>})
    \/ CallAddPhone
    \/ CallRemovePhone
    \/ CallEditPhone
    \/ CallFindPhone

SpecRecord == Init /\ [][NextRecord]_vars

\* Dates around the turn of a year and around the end of a leap February
DateStarts == {<<2023, 12, 24>>, <<2024, 2, 21>>}

DateDays == {PlusDays(s, k) : s \in DateStarts, k \in 0..MaxSpan}

DateStrings == {LeapDay, NewYearsDay, NewYearsEve, FirstOfMarch, NoSuchDay}

InitDates ==
    /\ file = <<>>
    /\ book = load_data(file)
    /\ today \in DateDays
    /\ pc = "loop"
    /\ user_input = <<>>
    /\ display = "Welcome to the assistant bot!"
    /\ saves = 0
    /\ call = NoCall
    /\ ret = Ret(None)

CallAddBirthday ==
    \E i \in 1..Len(book), s \in DateStrings :
        OnRecord("add_birthday", i, <<s>>, Record_add_birthday(book[i].rec, s))

CallDaysToBirthday ==
    \E i \in 1..Len(book) :
        /\ Calls("days_to_birthday", i, <<>>, Record_days_to_birthday(book[i].rec, today))
        /\ UNCHANGED book

CallGetUpcomingBirthdays ==
    /\ Calls("get_upcoming_birthdays", 0, <<>>,
             AddressBook_get_upcoming_birthdays(book, today))
    /\ UNCHANGED book

CallDelete ==
    \E name \in {Alice, Bob} :
        /\ Calls("delete", 0, <<name>>, AddressBook_delete(book, name))
        /\ book' = AddressBook_delete(book, name).val

TickDates == Midnight(DateDays)

NextDates ==
    \/ NewRecord({Alice, Bob})
    \/ CallAddBirthday
    \/ CallDaysToBirthday
    \/ CallGetUpcomingBirthdays
    \/ CallDelete
    \/ TickDates

SpecDates == InitDates /\ [][NextDates]_vars

-----------------------------------------------------------------------------
(* The claims *)

\* What the specification calls a phone: a string of exactly 10 decimal digits
TenDecimalDigits(s) == Len(s) = 10 /\ \A i \in 1..10 : IsDigit(s[i])

\* The next occurrence of the month and day of birthday on or after day t
\* (leap years are at most eight years apart)
NextOccurrence(birthday, t) ==
    LET later == {d \in {<<y, Month(birthday), Day(birthday)>> : y \in Year(t)..(Year(t) + 8)} :
                     /\ ValidDate(d[1], d[2], d[3])
                     /\ Ordinal(d) >= Ordinal(t)} IN
    CHOOSE d \in later : \A e \in later : Ordinal(d) <= Ordinal(e)

DaysUntilNext(birthday, t) == Ordinal(NextOccurrence(birthday, t)) - Ordinal(t)

\* C1: editPhone(old, new) is atomic: when the record's phone list contains
\* old and new fails phone validation, the call fails and the phone list is
\* the same as before the call, old still in it.
C1_EditPhoneAtomic ==
    [][CallEditPhone =>
        LET before == book[call'.self].rec
            after == book'[call'.self].rec
            old == call'.args[1]
            new == call'.args[2] IN
        (Record_find_phone(before, old) # 0 /\ ~Phone_validate(new)) =>
            /\ ret'.exc # ""
            /\ after.phones = before.phones
            /\ Record_find_phone(after, old) # 0]_vars

\* C4: Phone construction, and so addPhone, succeeds for exactly the strings
\* of 10 decimal digits: any other string (another length, a non-digit, a
\* trailing newline or other whitespace) raises the validation error and
\* nothing is appended; a string of 10 digits is appended.
C4_PhoneIsTenDigits ==
    [][CallAddPhone =>
        LET before == book[call'.self].rec
            after == book'[call'.self].rec
            s == call'.args[1] IN
        IF TenDecimalDigits(s)
        THEN ret'.exc = "" /\ after.phones = Append(before.phones, s)
        ELSE ret'.exc = "ValueError" /\ after.phones = before.phones]_vars

\* C3: with a birthday set, whatever its month and day and whatever today
\* is, daysToBirthday() returns the non-negative number of days from today to
\* the next occurrence of the birthday's month and day on or after today (0
\* for today, 1 for tomorrow); it returns none only when no birthday is set.
C3_DaysToBirthday ==
    [][CallDaysToBirthday =>
        LET self == book[call'.self].rec IN
        IF self.birthday = None THEN ret' = Ret(None)
        ELSE /\ ret' = Ret(<<DaysUntilNext(self.birthday, today)>>)
             /\ ret'.val[1] >= 0]_vars

RECURSIVE ExpectedUpcoming(_, _)
ExpectedUpcoming(data, t) ==
    IF data = <<>> THEN <<>>
    ELSE LET record == Head(data).rec IN
         (IF record.birthday # None /\ DaysUntilNext(record.birthday, t) \in 0..7
          THEN <<[name |-> record.name, birthday |-> record.birthday]>>
          ELSE <<>>) \o ExpectedUpcoming(Tail(data), t)

\* C5: for every collection upcomingBirthdays() returns exactly one {name,
\* birthday} pair for each record with a birthday 0 to 7 days away (both ends
\* included), in the insertion order of the collection, and leaves the
\* collection as it was.
C5_UpcomingBirthdays ==
    [][CallGetUpcomingBirthdays =>
        /\ ret' = Ret(ExpectedUpcoming(book, today))
        /\ book' = book]_vars

\* C2: no error is fatal: the loop leaves the state of reading commands only
\* on a line whose verb is close or exit; every other line (an empty or
\* whitespace-only one, too few arguments, a validation or not-found error)
\* gets a message displayed and the next command is read.
C2_NoErrorIsFatal ==
    pc # "loop" =>
        /\ parse_input(user_input).exc = ""
        /\ parse_input(user_input).val.command \in {"close", "exit"}

Has(data, name) == \E i \in 1..Len(data) : data[i].key = name

PhonesOf(data, name) ==
    IF Has(data, name) THEN data[CHOOSE i \in 1..Len(data) : data[i].key = name].rec.phones
    ELSE <<>>

Count(phones, p) == Cardinality({i \in 1..Len(phones) : phones[i] = p})

RECURSIVE CommaList(_)
CommaList(phones) ==
    IF phones = <<>> THEN ""
    ELSE IF Len(phones) = 1 THEN Str(phones[1])
    ELSE CommaList(SubSeq(phones, 1, Len(phones) - 1)) \o ", " \o Str(phones[Len(phones)])

NewEntry(name) == [key |-> name, rec |-> [name |-> name, phones |-> <<>>, birthday |-> None]]

C7_ChangeFails ==
    [][Change =>
        LET args == Args(user_input') IN
        Len(args) >= 3 =>
            LET name == args[1]
                old == args[2]
                new == args[3]
                both == Has(book, name) /\ Count(PhonesOf(book, name), old) > 0 IN
            /\ ~Has(book, name) => display' = "Error: Contact not found." /\ book' = book
            /\ (Has(book, name) /\ ~both) =>
                   display' = "Error: Phone number not found." /\ book' = book
            /\ (display' = "Phone number updated." \/ book' # book) => both
            /\ display' = "Phone number updated." =>
                   /\ Len(PhonesOf(book', name)) = Len(PhonesOf(book, name))
                   /\ Count(PhonesOf(book', name), new) > 0
                   /\ old # new =>
                          Count(PhonesOf(book', name), old)
                              = Count(PhonesOf(book, name), old) - 1
            /\ (both /\ TenDecimalDigits(new)) => display' = "Phone number updated."]_vars

C7_Witness ==
    /\ user_input = Line(<<cChange, Bob, Phone2, Phone1>>)
    /\ display = "Error: Contact not found."
    /\ Has(book, Alice)
    /\ ~Has(book, Bob)

\* C8: on close or exit the collection is saved exactly once, before the
\* farewell is displayed, and the loop ends without reading another command;
\* no other command saves; what is saved is the collection in memory as the
\* commands before the exit left it.
C8_SaveOnExit ==
    /\ pc \in {"loop", "crashed"} => saves = 0 /\ file = <<>>
    /\ pc \in {"farewell", "done"} =>
           /\ saves = 1
           /\ file = <<book>>
           /\ parse_input(user_input).val.command \in {"close", "exit"}
    /\ pc = "farewell" => display = "Data saved successfully."
    /\ display = "Good bye!" <=> pc = "done"
    /\ pc = "done" => ~ENABLED Next

C8_Witness ==
    /\ pc = "done"
    /\ display = "Good bye!"
    /\ saves = 1
    /\ Len(book) = 2
    /\ file = <<book>>

\* C9: after any sequence of commands from an empty collection, every key of
\* the collection maps to a record whose name is that key, the name is not
\* empty, and no two records share a name.
C9_KeysAreNames ==
    \A i \in 1..Len(book) :
        /\ book[i].rec.name = book[i].key
        /\ book[i].rec.name # <<>>
        /\ \A j \in 1..Len(book) : book[j].rec.name = book[i].rec.name => j = i

C9_Witness ==
    /\ Len(book) = 2
    /\ Has(book, Alice)
    /\ Has(book, Bob)
    /\ display = "Contact updated."

InvalidPhone == "Error: Invalid phone number format. It must be 10 digits."

\* C10: add inserts the new record before it validates the phone: with a
\* name not in the collection and a phone that fails validation it answers
\* with an "Error: ..." string and leaves a record for the name with an empty
\* phone list, so that the add that follows for the same name answers
\* "Contact updated." and not "Contact added.".
C10_AddInsertsFirst ==
    [][Add =>
        LET args == Args(user_input')
            last == Args(user_input) IN
        Len(args) >= 2 =>
            /\ (~Has(book, args[1]) /\ ~TenDecimalDigits(args[2])) =>
                   /\ display' = InvalidPhone
                   /\ book' = Append(book, NewEntry(args[1]))
            /\ (/\ parse_input(user_input).exc = ""
                /\ parse_input(user_input).val.command = "add"
                /\ display = InvalidPhone
                /\ last[1] = args[1]
                /\ TenDecimalDigits(args[2])) => display' = "Contact updated."]_vars

C10_Witness ==
    /\ user_input = Line(<<cAdd, Alice, ShortPhone>>)
    /\ display = InvalidPhone
    /\ book = <<NewEntry(Alice)>>

=============================================================================
